---- MODULE Spec2Model ----
(***************************************************************************)
(* The readable mixin of zstreams (lib/mixins/_readable.js): pipe, unpipe  *)
(* and tee over the stream primitive's own pipe/unpipe, the list of        *)
(* downstream streams, the dirty flag of the cached stream chain, and the  *)
(* synchronous through/filter wrappers.                                    *)
(***************************************************************************)
EXTENDS Integers, Sequences, FiniteSets, TLC

VARIABLES
    conns,    \* the primitive's pipes of each producer (_readableState.pipes)
    fanout,   \* _zDownstreamStreams of each producer
    errL,     \* the 'error' listeners of each node, in listeners('error') order
    chain,    \* _currentStreamChain of each node: "none", "clean" or "dirty"
    last,     \* the call that produced this state, its arguments and outcome
    seen,     \* what a 'pipe'/'unpipe' listener of the destination saw in it
    sync,     \* the last item handed to a stage built by through or a *Sync wrapper
    held,     \* the array a caller got from getDownstreamStreams and kept
    built,    \* the stage the last convenience constructor built
    sink      \* the sink of intoArray/intoString and the caller's callback

vars == <<conns, fanout, errL, chain, last, seen, sync, held, built, sink>>

-----------------------------------------------------------------------------
(* Bounds *)

MaxFanout == 2       \* pipes held by one producer
MaxItem == 3         \* items 1..MaxItem go through a *Sync stage
MaxAcc == 2          \* items a sink takes before it completes or fails

-----------------------------------------------------------------------------
(* The nodes *)

Producers == {"P1"}
ZConsumers == {"Z1"}            \* destinations that carry _isZStream
Foreign == {"X1"}               \* destinations that do not
Consumers == ZConsumers \cup Foreign
Nodes == Producers \cup Consumers

Undefined == "undefined"

IsZStream(n) == n \in Producers \cup ZConsumers \cup {"S1", "S2"}

\* conversion.convertToZStream: a conforming node is passed through, a
\* foreign one gets its conforming wrapper. Z1 is the wrapper of X1; once
\* it exists, callers pipe to it and unpipe it like any other z-stream.
convertToZStream(x) == IF IsZStream(x) THEN x ELSE "Z1"

\* The options argument of pipe: absent, or an object with or without noConvert.
Options ==
    { [given |-> FALSE, noConvert |-> FALSE],
      [given |-> TRUE, noConvert |-> FALSE],
      [given |-> TRUE, noConvert |-> TRUE] }

NoOptions == [given |-> FALSE, noConvert |-> FALSE]

\* options && options.noConvert
NoConvert(o) == o.given /\ o.noConvert

\* The failures the primitive's pipe or unpipe may raise; a primitive that
\* raises has wired or unwired nothing and has invoked no listener.
Failures == {"E1"}
PrimOutcomes == {"ok"} \cup Failures

UserListeners == {"u1"}
OnError == "onerror"     \* the default listener the primitive's pipe attaches

-----------------------------------------------------------------------------
(* Sequences *)

RECURSIVE CountIn(_, _)
CountIn(s, x) ==
    IF s = <<>> THEN 0
    ELSE (IF Head(s) = x THEN 1 ELSE 0) + CountIn(Tail(s), x)

RemoveAt(s, i) == SubSeq(s, 1, i - 1) \o SubSeq(s, i + 1, Len(s))

IndexOf(s, x) ==
    IF \E i \in 1..Len(s) : s[i] = x
    THEN CHOOSE i \in 1..Len(s) : s[i] = x /\ \A j \in 1..(i - 1) : s[j] # x
    ELSE 0

LastIndexOf(s, x) ==
    IF \E i \in 1..Len(s) : s[i] = x
    THEN CHOOSE i \in 1..Len(s) : s[i] = x /\ \A j \in (i + 1)..Len(s) : s[j] # x
    ELSE 0

\* The state the connection layer reads and writes, as one value.
Snapshot == [conns |-> conns, fanout |-> fanout, errL |-> errL, chain |-> chain]

-----------------------------------------------------------------------------
(* The stream primitive and the event emitter *)

\* emitter.removeListener(name, l): the most recently added instance of l.
removeListener(ls, l) ==
    IF LastIndexOf(ls, l) = 0 THEN ls ELSE RemoveAt(ls, LastIndexOf(ls, l))

\* The primitive's pipe: it records the destination among the producer's
\* pipes and puts its own error listener before the destination's others.
SuperPipe(S, p, dest) ==
    [S EXCEPT !.conns[p] = Append(@, dest),
              !.errL[dest] = <<OnError>> \o @]

\* The primitive's unpipe: one destination (the first index that holds it,
\* nothing when it is not piped), or all of them when none is named.
SuperUnpipe(S, p, d) ==
    IF d = Undefined THEN [S EXCEPT !.conns[p] = <<>>]
    ELSE IF IndexOf(S.conns[p], d) = 0 THEN S
    ELSE [S EXCEPT !.conns[p] = RemoveAt(@, IndexOf(@, d))]

-----------------------------------------------------------------------------
(* _Readable.prototype.pipe *)

\* A pipe that converts every foreign destination, noConvert or not.
PipeConverts_IgnoresNoConvert(x, o) == ~IsZStream(x)

\* Whether pipe hands the destination to the conversion.
PipeConverts(x, o) == ~IsZStream(x) /\ ~NoConvert(o)

\* The destination pipe goes on with.
PipeDestination(x, o) == IF PipeConverts(x, o) THEN convertToZStream(x) ELSE x

\* A pipe that removes the last error listener instead of the first.
StripDefaultErrorListener_Last(ls) ==
    IF Len(ls) >= 1 THEN removeListener(ls, ls[Len(ls)]) ELSE ls

\* listeners('error')[0], when there is one, is removed.
StripDefaultErrorListener(ls) ==
    IF Len(ls) >= 1 THEN removeListener(ls, ls[1]) ELSE ls

\* A pipe that keeps a destination it already lists out of the list.
PushDownstream_Dedup(f, dest) ==
    IF \E i \in 1..Len(f) : f[i] = dest THEN f ELSE Append(f, dest)

\* this._zDownstreamStreams.push(destination)
PushDownstream(f, dest) == Append(f, dest)

\* A marking that gives a node without a chain a dirty one.
MarkDirty_Creates(ch, n) == [ch EXCEPT ![n] = "dirty"]

\* if(n._currentStreamChain) n._currentStreamChain.dirty = true
MarkDirty(ch, n) == IF ch[n] # "none" THEN [ch EXCEPT ![n] = "dirty"] ELSE ch

\* A pipe that marks its own chain only.
PipeMarkDirty_SourceOnly(ch, p, dest) == MarkDirty(ch, p)

\* Both ends of the new connection are marked.
PipeMarkDirty(ch, p, dest) == MarkDirty(MarkDirty(ch, p), dest)

\* A pipe that lists the destination before it calls the primitive.
ZPipe_PushesFirst(S, p, x, o, r) ==
    LET dest == PipeDestination(x, o)
        s0 == [S EXCEPT !.fanout[p] = PushDownstream(@, dest)]
        s1 == SuperPipe(s0, p, dest)
        s2 == [s1 EXCEPT !.errL[dest] = StripDefaultErrorListener(@)]
        s4 == [s2 EXCEPT !.chain = PipeMarkDirty(@, p, dest)]
    IN  IF r # "ok"
        THEN [st |-> s0, mid |-> s0, ok |-> FALSE, raised |-> r, ret |-> Undefined,
              dest |-> dest, converted |-> PipeConverts(x, o), emitted |-> FALSE]
        ELSE [st |-> s4, mid |-> s1, ok |-> TRUE, raised |-> "none", ret |-> dest,
              dest |-> dest, converted |-> PipeConverts(x, o), emitted |-> TRUE]

\* pipe(x, o) on producer p from state S, the primitive answering r.
\* st: the state it leaves; mid: the state while the primitive emits 'pipe'.
ZPipe(S, p, x, o, r) ==
    LET dest == PipeDestination(x, o)
        s1 == SuperPipe(S, p, dest)
        s2 == [s1 EXCEPT !.errL[dest] = StripDefaultErrorListener(@)]
        s3 == [s2 EXCEPT !.fanout[p] = PushDownstream(@, dest)]
        s4 == [s3 EXCEPT !.chain = PipeMarkDirty(@, p, dest)]
    IN  IF r # "ok"
        THEN [st |-> S, mid |-> S, ok |-> FALSE, raised |-> r, ret |-> Undefined,
              dest |-> dest, converted |-> PipeConverts(x, o), emitted |-> FALSE]
        ELSE [st |-> s4, mid |-> s1, ok |-> TRUE, raised |-> "none", ret |-> dest,
              dest |-> dest, converted |-> PipeConverts(x, o), emitted |-> TRUE]

-----------------------------------------------------------------------------
(* _Readable.prototype.unpipe *)

\* The list of destinations after unpipe(d).
UnpipeDownstream(f, d) ==
    IF d # Undefined THEN SelectSeq(f, LAMBDA e : e # d) ELSE <<>>

\* An unpipe that marks the chain of every node, the destinations' too.
UnpipeMarkDirty_Everyone(ch, p) ==
    [n \in DOMAIN ch |-> IF ch[n] # "none" THEN "dirty" ELSE ch[n]]

\* Only the producer's chain is marked.
UnpipeMarkDirty(ch, p) == MarkDirty(ch, p)

\* unpipe(d) on producer p from state S, the primitive answering r.
ZUnpipe(S, p, d, r) ==
    LET s1 == SuperUnpipe(S, p, d)
        s2 == [s1 EXCEPT !.fanout[p] = UnpipeDownstream(@, d)]
        s3 == [s2 EXCEPT !.chain = UnpipeMarkDirty(@, p)]
    IN  IF r # "ok"
        THEN [st |-> S, mid |-> S, ok |-> FALSE, raised |-> r, ret |-> Undefined,
              dest |-> d, converted |-> FALSE, emitted |-> FALSE]
        ELSE [st |-> s3, mid |-> s1, ok |-> TRUE, raised |-> "none", ret |-> p,
              dest |-> d, converted |-> FALSE, emitted |-> s1 # S]

-----------------------------------------------------------------------------
(* _Readable.prototype.tee *)

\* A tee that calls this.pipe(destination) and drops the options.
ZTee_DropsOptions(S, p, x, o, r) ==
    LET out == ZPipe(S, p, x, NoOptions, r)
    IN  [out EXCEPT !.ret = IF out.ok THEN p ELSE Undefined]

\* this.pipe(destination, options); return this;
ZTee(S, p, x, o, r) ==
    LET out == ZPipe(S, p, x, o, r)
    IN  [out EXCEPT !.ret = IF out.ok THEN p ELSE Undefined]

-----------------------------------------------------------------------------
(* The calls *)

\* What a call leaves in last and in seen.
CallRecord(op, p, x, o, r, out) ==
    [op |-> op, src |-> p, arg |-> x, opts |-> o, prim |-> r, dest |-> out.dest,
     converted |-> out.converted, ok |-> out.ok, raised |-> out.raised,
     ret |-> out.ret]

Observed(out, listening) ==
    [observed |-> listening /\ out.emitted,
     st |-> IF listening /\ out.emitted THEN out.mid ELSE out.st]

\* No array was taken from getDownstreamStreams.
NotHeld == [taken |-> FALSE, src |-> Undefined, live |-> FALSE, val |-> <<>>]

\* return this._zDownstreamStreams: the caller holds the producer's array.
HeldFrom(p, f) == [taken |-> TRUE, src |-> p, live |-> TRUE, val |-> f]

\* push changes the producer's array in place: whoever holds it sees the
\* new entry.
HeldAfterPipe(h, p, out) ==
    IF out.ok /\ h.taken /\ h.live /\ h.src = p
    THEN [h EXCEPT !.val = out.st.fanout[p]]
    ELSE h

\* unpipe assigns a new array (the filter's result, or []) to
\* _zDownstreamStreams: an array held from before is the producer's no more
\* and keeps its entries.
HeldAfterUnpipe(h, p, out) ==
    IF out.ok /\ h.taken /\ h.src = p THEN [h EXCEPT !.live = FALSE] ELSE h

\* Whether the destination has a 'pipe'/'unpipe' listener that looks at the
\* state; a primitive that raises invokes none.
Listening(r) == IF r = "ok" THEN BOOLEAN ELSE {FALSE}

\* The bounds leave room for the primitive to hold one more pipe.
Room(p) == Len(conns[p]) < MaxFanout /\ Len(fanout[p]) < MaxFanout

Pipe(p, x, o) ==
    /\ Room(p)
    /\ \E r \in PrimOutcomes : \E listening \in Listening(r) :
          LET out == ZPipe(Snapshot, p, x, o, r)
          IN  /\ conns' = out.st.conns
              /\ fanout' = out.st.fanout
              /\ errL' = out.st.errL
              /\ chain' = out.st.chain
              /\ last' = CallRecord("pipe", p, x, o, r, out)
              /\ seen' = Observed(out, listening)
              /\ held' = HeldAfterPipe(held, p, out)
    /\ UNCHANGED <<sync, built, sink>>

Tee(p, x, o) ==
    /\ Room(p)
    /\ \E r \in PrimOutcomes : \E listening \in Listening(r) :
          LET out == ZTee(Snapshot, p, x, o, r)
          IN  /\ conns' = out.st.conns
              /\ fanout' = out.st.fanout
              /\ errL' = out.st.errL
              /\ chain' = out.st.chain
              /\ last' = CallRecord("tee", p, x, o, r, out)
              /\ seen' = Observed(out, listening)
              /\ held' = HeldAfterPipe(held, p, out)
    /\ UNCHANGED <<sync, built, sink>>

Unpipe(p, d) ==
    /\ \E r \in PrimOutcomes : \E listening \in Listening(r) :
          LET out == ZUnpipe(Snapshot, p, d, r)
          IN  /\ conns' = out.st.conns
              /\ fanout' = out.st.fanout
              /\ errL' = out.st.errL
              /\ chain' = out.st.chain
              /\ last' = CallRecord("unpipe", p, d, NoOptions, r, out)
              /\ seen' = Observed(out, listening)
              /\ held' = HeldAfterUnpipe(held, p, out)
    /\ UNCHANGED <<sync, built, sink>>

-----------------------------------------------------------------------------
(* What the rest of the program does between the calls *)

NoCall ==
    [op |-> "none", src |-> Undefined, arg |-> Undefined, opts |-> NoOptions,
     prim |-> "ok", dest |-> Undefined, converted |-> FALSE, ok |-> TRUE,
     raised |-> "none", ret |-> Undefined]

\* destination.on('error', l) by the code that owns the destination; each
\* user listener is registered on a node once.
AddErrorListener(n, l) ==
    /\ \A i \in 1..Len(errL[n]) : errL[n][i] # l
    /\ errL' = [errL EXCEPT ![n] = Append(@, l)]
    /\ last' = NoCall
    /\ UNCHANGED <<conns, fanout, chain, sync, held, built, sink>>
    /\ seen' = [observed |-> FALSE, st |-> Snapshot']

\* The stream chain of a node is computed, for the first time or again
\* after it was marked dirty.
ComputeChain(n) ==
    /\ IsZStream(n)
    /\ chain[n] \in {"none", "dirty"}
    /\ chain' = [chain EXCEPT ![n] = "clean"]
    /\ last' = NoCall
    /\ UNCHANGED <<conns, fanout, errL, sync, held, built, sink>>
    /\ seen' = [observed |-> FALSE, st |-> Snapshot']

\* getDownstreamStreams() by a caller that keeps what it returns.
GetDownstreamStreams(p) ==
    /\ held' = HeldFrom(p, fanout[p])
    /\ last' = NoCall
    /\ UNCHANGED <<conns, fanout, errL, chain, seen, sync, built, sink>>

-----------------------------------------------------------------------------
(* through, throughSync and filterSync: one item through the stage *)

\* What a function is called with: an item, an encoding or the callback.
ItemArg(i) == [t |-> "item", v |-> i]
EncArg == [t |-> "encoding", v |-> 0]
CbArg == [t |-> "function", v |-> 0]

FErr == "FErr"      \* what the caller's function raises
CbErr == "CbErr"    \* what the stage's completion callback raises

\* The caller's function on one item: it returns val or raises FErr.
FOutcomes ==
    { [raises |-> FALSE, val |-> v] : v \in 1..MaxItem }
        \cup { [raises |-> TRUE, val |-> 0] }

\* One invocation of the completion callback: cb(err) or cb(null, val).
CbCall(err, val) == [err |-> err, val |-> val]

\* through: the stage's function(chunk, enc, cb) calls
\* transformFunc.call(this, chunk, cb).
ThroughArgs(chunk, enc, cb) == <<chunk, cb>>

\* The filter stage calls filterFunc(chunk, cb).
FilterArgs(chunk, cb) == <<chunk, cb>>

\* A wrapper without the try/catch: what the function raises leaves it.
TryForward_NoCatch(fo, cbR, cbE) ==
    IF fo.raises
    THEN [calls |-> <<>>, escaped |-> FErr]
    ELSE [calls |-> <<CbCall("null", fo.val)>>,
          escaped |-> IF cbR THEN CbErr ELSE "none"]

\* try { cb(null, f(...)) } catch (ex) { cb(ex) }: the callback's
\* invocations in order, and what leaves the wrapper. cbR and cbE tell
\* whether the callback raises when given a result and when given an error.
TryForward(fo, cbR, cbE) ==
    IF fo.raises
    THEN [calls |-> <<CbCall(FErr, 0)>>,
          escaped |-> IF cbE THEN CbErr ELSE "none"]
    ELSE IF cbR
    THEN [calls |-> <<CbCall("null", fo.val), CbCall(CbErr, 0)>>,
          escaped |-> IF cbE THEN CbErr ELSE "none"]
    ELSE [calls |-> <<CbCall("null", fo.val)>>, escaped |-> "none"]

\* The function throughSync hands to through, called with args.
ThroughSyncWrapper(args, fo, cbR, cbE) ==
    LET cb == IF args[2].t = "function" THEN args[2] ELSE args[3]
        fargs == SubSeq(args, 1, Len(args) - 1)
    IN  [fargs |-> fargs, cb |-> cb] @@ TryForward(fo, cbR, cbE)

\* The function filterSync hands to filter, called with (chunk, cb).
FilterSyncWrapper(args, fo, cbR, cbE) ==
    [fargs |-> <<args[1]>>, cb |-> args[2]] @@ TryForward(fo, cbR, cbE)

\* The production mode through() gives its stage.
ThroughReadableMode(objectMode, upstream) ==
    IF objectMode # Undefined THEN objectMode = "true" ELSE upstream

NoItem ==
    [variant |-> "none", upstream |-> FALSE, readable |-> FALSE, item |-> 0,
     fo |-> [raises |-> FALSE, val |-> 0], cbR |-> FALSE, cbE |-> FALSE,
     fargs |-> <<>>, calls |-> <<>>, escaped |-> "none"]

\* What the stage's handling of one item leaves in sync.
ItemRecord(variant, upstream, readable, i, fo, cbR, cbE, out) ==
    [variant |-> variant, upstream |-> upstream, readable |-> readable,
     item |-> i, fo |-> fo, cbR |-> cbR, cbE |-> cbE,
     fargs |-> out.fargs, calls |-> out.calls, escaped |-> out.escaped]

\* An item reaches the stage built by throughSync(f, objectMode) on an
\* upstream of the given mode.
ThroughSyncItem(variant, objectMode, upstream, i, fo, cbR, cbE) ==
    ItemRecord(variant, upstream, ThroughReadableMode(objectMode, upstream), i,
               fo, cbR, cbE,
               ThroughSyncWrapper(ThroughArgs(ItemArg(i), EncArg, CbArg),
                                  fo, cbR, cbE))

ThroughSync ==
    /\ \E om \in {Undefined, "true", "false"}, upstream \in BOOLEAN,
          i \in 1..MaxItem, fo \in FOutcomes, cbR \in BOOLEAN, cbE \in BOOLEAN :
          sync' = ThroughSyncItem("throughSync", om, upstream, i, fo, cbR, cbE)
    /\ UNCHANGED <<conns, fanout, errL, chain, last, seen, held, built, sink>>

\* this.throughSync(transformFunc, true)
ThroughObjSync ==
    /\ \E upstream \in BOOLEAN, i \in 1..MaxItem, fo \in FOutcomes,
          cbR \in BOOLEAN, cbE \in BOOLEAN :
          sync' = ThroughSyncItem("throughObjSync", "true", upstream, i, fo, cbR, cbE)
    /\ UNCHANGED <<conns, fanout, errL, chain, last, seen, held, built, sink>>

\* this.throughSync(transformFunc, false)
ThroughDataSync ==
    /\ \E upstream \in BOOLEAN, i \in 1..MaxItem, fo \in FOutcomes,
          cbR \in BOOLEAN, cbE \in BOOLEAN :
          sync' = ThroughSyncItem("throughDataSync", "false", upstream, i, fo, cbR, cbE)
    /\ UNCHANGED <<conns, fanout, errL, chain, last, seen, held, built, sink>>

\* An item reaches the stage built by filterSync(f).
FilterSync ==
    /\ \E upstream \in BOOLEAN, i \in 1..MaxItem, fo \in FOutcomes,
          cbR \in BOOLEAN, cbE \in BOOLEAN :
          sync' = ItemRecord("filterSync", upstream, TRUE, i, fo, cbR, cbE,
                             FilterSyncWrapper(FilterArgs(ItemArg(i), CbArg),
                                               fo, cbR, cbE))
    /\ UNCHANGED <<conns, fanout, errL, chain, last, seen, held, built, sink>>

SyncNext == ThroughSync \/ ThroughObjSync \/ ThroughDataSync \/ FilterSync

\* An item reaches the stage built by through(f, objectMode): the stage
\* calls f, which answers through the callback in its own time.
ThroughItem(variant, objectMode, upstream, i) ==
    ItemRecord(variant, upstream, ThroughReadableMode(objectMode, upstream), i,
               [raises |-> FALSE, val |-> 0], FALSE, FALSE,
               [fargs |-> ThroughArgs(ItemArg(i), EncArg, CbArg),
                calls |-> <<>>, escaped |-> "none"])

Through ==
    /\ \E om \in {Undefined, "true", "false"}, upstream \in BOOLEAN,
          i \in 1..MaxItem :
          sync' = ThroughItem("through", om, upstream, i)
    /\ UNCHANGED <<conns, fanout, errL, chain, last, seen, held, built, sink>>

\* this.through(transformFunc, true)
ThroughObj ==
    /\ \E upstream \in BOOLEAN, i \in 1..MaxItem :
          sync' = ThroughItem("throughObj", "true", upstream, i)
    /\ UNCHANGED <<conns, fanout, errL, chain, last, seen, held, built, sink>>

\* this.through(transformFunc, false)
ThroughData ==
    /\ \E upstream \in BOOLEAN, i \in 1..MaxItem :
          sync' = ThroughItem("throughData", "false", upstream, i)
    /\ UNCHANGED <<conns, fanout, errL, chain, last, seen, held, built, sink>>

ThroughNext ==
    \/ Through \/ ThroughObj \/ ThroughData
    \/ ThroughSync \/ ThroughObjSync \/ ThroughDataSync

-----------------------------------------------------------------------------
(* The values a caller may pass: each carries its text, the one
   ToString gives it *)

JsUndefined == [t |-> "undefined", v |-> <<"u","n","d","e","f","i","n","e","d">>]
JsNull == [t |-> "null", v |-> <<"n","u","l","l">>]
JsBoolean(b) ==
    [t |-> "boolean",
     v |-> IF b THEN <<"t","r","u","e">> ELSE <<"f","a","l","s","e">>]
JsNumber(text) == [t |-> "number", v |-> text]
JsString(text) == [t |-> "string", v |-> text]
JsRegExp(text) == [t |-> "regexp", v |-> text]

\* ToBoolean: undefined, null, false, 0 and "" are falsy.
Falsy(x) ==
    \/ x.t \in {"undefined", "null"}
    \/ x = JsBoolean(FALSE)
    \/ x = JsNumber(<<"0">>)
    \/ x = JsString(<<>>)

DigitChars == <<"0", "1", "2", "3", "4", "5", "6", "7", "8", "9">>
IsDigit(c) == \E i \in DOMAIN DigitChars : DigitChars[i] = c
DigitValue(c) == (CHOOSE i \in DOMAIN DigitChars : DigitChars[i] = c) - 1

RECURSIVE TrimStart(_)
TrimStart(s) == IF s # <<>> /\ Head(s) = " " THEN TrimStart(Tail(s)) ELSE s

RECURSIVE DigitPrefix(_)
DigitPrefix(s) ==
    IF s # <<>> /\ IsDigit(Head(s)) THEN <<Head(s)>> \o DigitPrefix(Tail(s))
    ELSE <<>>

RECURSIVE DecimalValue(_)
DecimalValue(ds) ==
    IF ds = <<>> THEN 0
    ELSE 10 * DecimalValue(SubSeq(ds, 1, Len(ds) - 1)) + DigitValue(ds[Len(ds)])

NaN == [nan |-> TRUE, n |-> 0]

\* parseInt(x): the text of x, leading blanks dropped, an optional sign,
\* then the longest run of decimal digits; what follows the run is
\* ignored, and no digit at all gives NaN.
parseInt(x) ==
    LET s == TrimStart(x.v)
        signed == s # <<>> /\ Head(s) \in {"-", "+"}
        ds == DigitPrefix(IF signed THEN Tail(s) ELSE s)
    IN  IF ds = <<>> THEN NaN
        ELSE [nan |-> FALSE,
              n |-> IF signed /\ Head(s) = "-" THEN 0 - DecimalValue(ds)
                    ELSE DecimalValue(ds)]

-----------------------------------------------------------------------------
(* The convenience constructors *)

Stages == {"S1", "S2"}       \* the stage objects the constructors create

\* A stage object that no call has piped into yet.
FreshStages ==
    { s \in Stages :
        \A p \in Producers :
            CountIn(conns[p], s) = 0 /\ CountIn(fanout[p], s) = 0 }

NewStage == CHOOSE s \in FreshStages : TRUE

\* isReadableObjectMode() as a configuration value.
Mode(b) == IF b THEN "true" ELSE "false"

\* { writableObjectMode: isReadableObjectMode(),
\*   readableObjectMode: objectMode !== undefined ? objectMode : isReadableObjectMode() }
ThroughConfig(objectMode, upstream) ==
    [writable |-> Mode(upstream),
     readable |-> Mode(ThroughReadableMode(objectMode, upstream))]

\* { objectMode: true }
FilterConfig(upstream) == [writable |-> "true", readable |-> "true"]

\* { objectMode: this.isReadableObjectMode() }
UpstreamConfig(upstream) ==
    [writable |-> Mode(upstream), readable |-> Mode(upstream)]

\* split, batch and pluck hand their stage no mode at all.
NoConfig(upstream) == [writable |-> "unset", readable |-> "unset"]

\* The six ways into through, each with the objectMode it passes.
ThroughCalls ==
    { [variant |-> v, objectMode |-> om] :
        v \in {"through", "throughSync"}, om \in {Undefined, "true", "false"} }
    \cup { [variant |-> v, objectMode |-> "true"] :
             v \in {"throughObj", "throughObjSync"} }
    \cup { [variant |-> v, objectMode |-> "false"] :
             v \in {"throughData", "throughDataSync"} }

DefaultDelimiter == JsRegExp(<<"\\r?\\n">>)
DefaultProperty == JsString(<<"v","a","l","u","e">>)
Newline == JsString(<<"\n">>)
DefaultBatchSize == 10

\* delimiter || /\r?\n/
SplitDelimiter(delimiter) ==
    IF Falsy(delimiter) THEN DefaultDelimiter ELSE delimiter

\* property || 'value'
PluckProperty(property) ==
    IF Falsy(property) THEN DefaultProperty ELSE property

\* parseInt(batchSize), and 10 when that is NaN.
BatchSize(batchSize) ==
    LET n == parseInt(batchSize)
    IN  IF n.nan THEN DefaultBatchSize ELSE n.n

\* seperator || '\n': every falsy separator becomes the newline.
IntersperseSeparator_Falsy(seperator) ==
    IF Falsy(seperator) THEN Newline ELSE seperator

\* (seperator === null || seperator === undefined) ? '\n' : seperator
IntersperseSeparator(seperator) ==
    IF seperator.t \in {"null", "undefined"} THEN Newline ELSE seperator

SplitArgs == { JsUndefined, JsString(<<>>), JsString(<<",">>) }
PluckArgs == { JsUndefined, JsString(<<>>), JsString(<<"i","d">>) }
IntersperseArgs ==
    { JsUndefined, JsNull, JsString(<<>>), JsNumber(<<"0">>), JsBoolean(FALSE),
      JsString(<<",">>), Newline }
BatchArgs ==
    { JsUndefined, JsNull, JsBoolean(TRUE),
      JsNumber(<<"5">>), JsNumber(<<"0">>), JsNumber(<<"-","3">>),
      JsNumber(<<"1","2">>), JsNumber(<<"5",".","7">>),
      JsString(<<"5">>), JsString(<<"1","2">>), JsString(<<>>),
      JsString(<<"a","b","c">>), JsString(<<"5","a","b","c">>),
      JsString(<<"5",".","7">>) }

\* What a constructor leaves in built: the call, the configuration and the
\* parameter its stage was created with, and how the pipe into it went.
StageRecord(ctor, upstream, objectMode, cfg, arg, param, size, stage, out) ==
    [ctor |-> ctor, upstream |-> upstream, objectMode |-> objectMode,
     writable |-> cfg.writable, readable |-> cfg.readable,
     arg |-> arg, param |-> param, size |-> size, stage |-> stage,
     raised |-> out.raised, ret |-> out.ret]

\* No constructor was called, no sink is at work.
NoStage ==
    [ctor |-> "none", upstream |-> FALSE, objectMode |-> Undefined,
     writable |-> "unset", readable |-> "unset",
     arg |-> JsUndefined, param |-> JsUndefined, size |-> 0,
     stage |-> Undefined, raised |-> "none", ret |-> Undefined]
NoSink ==
    [kind |-> "none", stage |-> Undefined, state |-> "none", acc |-> <<>>,
     signal |-> "none", calls |-> <<>>]

\* The sink just created and piped into: nothing written, nothing signalled.
NewSink(kind, stage) ==
    [kind |-> kind, stage |-> stage, state |-> "running", acc |-> <<>>,
     signal |-> "none", calls |-> <<>>]

\* One invocation of the caller's callback: cb(error) or cb(null, result).
SinkCb(err, hasResult, result) ==
    [err |-> err, hasResult |-> hasResult, result |-> result]

\* The sink's getArray(): the items written, in order.
GetArray(acc) == acc

\* The text of the chunk that carries item i.
ChunkText(i) == <<DigitChars[i + 1]>>

\* The sink's getString(): the chunks written, joined.
RECURSIVE GetString(_)
GetString(acc) ==
    IF acc = <<>> THEN <<>> ELSE ChunkText(Head(acc)) \o GetString(Tail(acc))

\* A handler without the else: after cb(error) it goes on to cb(null, ...).
IntoArrayHandler_NoElse(error, acc) ==
    IF error # "null"
    THEN <<SinkCb(error, FALSE, <<>>), SinkCb("null", TRUE, GetArray(acc))>>
    ELSE <<SinkCb("null", TRUE, GetArray(acc))>>

\* function(error) { if(error) cb(error); else cb(null, sink.getArray()); }:
\* the invocations of cb it makes.
IntoArrayHandler(error, acc) ==
    IF error # "null"
    THEN <<SinkCb(error, FALSE, <<>>)>>
    ELSE <<SinkCb("null", TRUE, GetArray(acc))>>

\* function(error) { if(error) cb(error); else cb(null, sink.getString()); }
IntoStringHandler(error, acc) ==
    IF error # "null"
    THEN <<SinkCb(error, FALSE, <<>>)>>
    ELSE <<SinkCb("null", TRUE, GetString(acc))>>

\* intoCallback(handler) on the sink: the handler is called on the sink's
\* first signal, with the failure or with nothing, and on no later one.
IntoCallback(s, signal) ==
    IF s.signal # "none" THEN s
    ELSE LET error == IF signal = "finish" THEN "null" ELSE signal
         IN  [s EXCEPT !.signal = signal,
                       !.calls = @ \o (IF s.kind = "array"
                                       THEN IntoArrayHandler(error, s.acc)
                                       ELSE IntoStringHandler(error, s.acc))]

\* No sink is waiting for its completion.
SinkIdle == sink.kind = "none" \/ sink.signal # "none"

\* through(f, objectMode) and the five variants that end in it:
\* this.pipe(new ThroughStream(..., { writableObjectMode, readableObjectMode })).
ThroughStream ==
    /\ FreshStages # {}
    /\ \E p \in Producers, upstream \in BOOLEAN, c \in ThroughCalls :
       \E r \in PrimOutcomes : \E listening \in Listening(r) :
          LET stage == NewStage
              out == ZPipe(Snapshot, p, stage, NoOptions, r)
          IN  /\ Room(p)
              /\ conns' = out.st.conns
              /\ fanout' = out.st.fanout
              /\ errL' = out.st.errL
              /\ chain' = out.st.chain
              /\ last' = CallRecord("pipe", p, stage, NoOptions, r, out)
              /\ seen' = Observed(out, listening)
              /\ held' = HeldAfterPipe(held, p, out)
              /\ built' = StageRecord(c.variant, upstream, c.objectMode, ThroughConfig(c.objectMode, upstream),
                                      JsUndefined, JsUndefined, 0, stage, out)
              /\ UNCHANGED <<sync, sink>>

\* filter(f), and filterSync(f) which calls it:
\* this.pipe(new FilterStream(filterFunc, { objectMode: true })).
Filter ==
    /\ FreshStages # {}
    /\ \E p \in Producers, upstream \in BOOLEAN, variant \in {"filter", "filterSync"} :
       \E r \in PrimOutcomes : \E listening \in Listening(r) :
          LET stage == NewStage
              out == ZPipe(Snapshot, p, stage, NoOptions, r)
          IN  /\ Room(p)
              /\ conns' = out.st.conns
              /\ fanout' = out.st.fanout
              /\ errL' = out.st.errL
              /\ chain' = out.st.chain
              /\ last' = CallRecord("pipe", p, stage, NoOptions, r, out)
              /\ seen' = Observed(out, listening)
              /\ held' = HeldAfterPipe(held, p, out)
              /\ built' = StageRecord(variant, upstream, Undefined, FilterConfig(upstream),
                                      JsUndefined, JsUndefined, 0, stage, out)
              /\ UNCHANGED <<sync, sink>>

\* split(delimiter): this.pipe(new SplitStream(delimiter)).
Split ==
    /\ FreshStages # {}
    /\ \E p \in Producers, upstream \in BOOLEAN, delimiter \in SplitArgs :
       \E r \in PrimOutcomes : \E listening \in Listening(r) :
          LET stage == NewStage
              out == ZPipe(Snapshot, p, stage, NoOptions, r)
          IN  /\ Room(p)
              /\ conns' = out.st.conns
              /\ fanout' = out.st.fanout
              /\ errL' = out.st.errL
              /\ chain' = out.st.chain
              /\ last' = CallRecord("pipe", p, stage, NoOptions, r, out)
              /\ seen' = Observed(out, listening)
              /\ held' = HeldAfterPipe(held, p, out)
              /\ built' = StageRecord("split", upstream, Undefined, NoConfig(upstream),
                                      delimiter, SplitDelimiter(delimiter), 0, stage, out)
              /\ UNCHANGED <<sync, sink>>

\* batch(batchSize): this.pipe(new BatchStream(batchSize)).
Batch ==
    /\ FreshStages # {}
    /\ \E p \in Producers, upstream \in BOOLEAN, batchSize \in BatchArgs :
       \E r \in PrimOutcomes : \E listening \in Listening(r) :
          LET stage == NewStage
              out == ZPipe(Snapshot, p, stage, NoOptions, r)
          IN  /\ Room(p)
              /\ conns' = out.st.conns
              /\ fanout' = out.st.fanout
              /\ errL' = out.st.errL
              /\ chain' = out.st.chain
              /\ last' = CallRecord("pipe", p, stage, NoOptions, r, out)
              /\ seen' = Observed(out, listening)
              /\ held' = HeldAfterPipe(held, p, out)
              /\ built' = StageRecord("batch", upstream, Undefined, NoConfig(upstream),
                                      batchSize, JsUndefined, BatchSize(batchSize), stage, out)
              /\ UNCHANGED <<sync, sink>>

\* pluck(property): this.pipe(new PluckStream(property)).
Pluck ==
    /\ FreshStages # {}
    /\ \E p \in Producers, upstream \in BOOLEAN, property \in PluckArgs :
       \E r \in PrimOutcomes : \E listening \in Listening(r) :
          LET stage == NewStage
              out == ZPipe(Snapshot, p, stage, NoOptions, r)
          IN  /\ Room(p)
              /\ conns' = out.st.conns
              /\ fanout' = out.st.fanout
              /\ errL' = out.st.errL
              /\ chain' = out.st.chain
              /\ last' = CallRecord("pipe", p, stage, NoOptions, r, out)
              /\ seen' = Observed(out, listening)
              /\ held' = HeldAfterPipe(held, p, out)
              /\ built' = StageRecord("pluck", upstream, Undefined, NoConfig(upstream),
                                      property, PluckProperty(property), 0, stage, out)
              /\ UNCHANGED <<sync, sink>>

\* intersperse(seperator):
\* this.pipe(new IntersperseStream(seperator, { objectMode: ... })).
Intersperse ==
    /\ FreshStages # {}
    /\ \E p \in Producers, upstream \in BOOLEAN, seperator \in IntersperseArgs :
       \E r \in PrimOutcomes : \E listening \in Listening(r) :
          LET stage == NewStage
              out == ZPipe(Snapshot, p, stage, NoOptions, r)
          IN  /\ Room(p)
              /\ conns' = out.st.conns
              /\ fanout' = out.st.fanout
              /\ errL' = out.st.errL
              /\ chain' = out.st.chain
              /\ last' = CallRecord("pipe", p, stage, NoOptions, r, out)
              /\ seen' = Observed(out, listening)
              /\ held' = HeldAfterPipe(held, p, out)
              /\ built' = StageRecord("intersperse", upstream, Undefined, UpstreamConfig(upstream),
                                      seperator, IntersperseSeparator(seperator), 0, stage, out)
              /\ UNCHANGED <<sync, sink>>

\* each(func): this.pipe(new FunctionWritableStream(func, { objectMode: ... })).
Each ==
    /\ FreshStages # {}
    /\ \E p \in Producers, upstream \in BOOLEAN :
       \E r \in PrimOutcomes : \E listening \in Listening(r) :
          LET stage == NewStage
              out == ZPipe(Snapshot, p, stage, NoOptions, r)
          IN  /\ Room(p)
              /\ conns' = out.st.conns
              /\ fanout' = out.st.fanout
              /\ errL' = out.st.errL
              /\ chain' = out.st.chain
              /\ last' = CallRecord("pipe", p, stage, NoOptions, r, out)
              /\ seen' = Observed(out, listening)
              /\ held' = HeldAfterPipe(held, p, out)
              /\ built' = StageRecord("each", upstream, Undefined, UpstreamConfig(upstream),
                                      JsUndefined, JsUndefined, 0, stage, out)
              /\ UNCHANGED <<sync, sink>>

\* intoArray(cb): a new array sink, piped into, its completion handed to
\* the handler; a pipe that raises registers nothing.
IntoArray ==
    /\ FreshStages # {}
    /\ SinkIdle
    /\ \E p \in Producers, upstream \in BOOLEAN :
       \E r \in PrimOutcomes : \E listening \in Listening(r) :
          LET stage == NewStage
              out == ZPipe(Snapshot, p, stage, NoOptions, r)
          IN  /\ Room(p)
              /\ conns' = out.st.conns
              /\ fanout' = out.st.fanout
              /\ errL' = out.st.errL
              /\ chain' = out.st.chain
              /\ last' = CallRecord("pipe", p, stage, NoOptions, r, out)
              /\ seen' = Observed(out, listening)
              /\ held' = HeldAfterPipe(held, p, out)
              /\ built' = [StageRecord("intoArray", upstream, Undefined,
                                       UpstreamConfig(upstream), JsUndefined,
                                       JsUndefined, 0, stage, out)
                               EXCEPT !.ret = Undefined]
              /\ sink' = IF out.ok THEN NewSink("array", stage) ELSE sink
              /\ UNCHANGED sync

\* intoString(cb): a new string sink, piped into, its completion handed to
\* the handler; a pipe that raises registers nothing.
IntoString ==
    /\ FreshStages # {}
    /\ SinkIdle
    /\ \E p \in Producers, upstream \in BOOLEAN :
       \E r \in PrimOutcomes : \E listening \in Listening(r) :
          LET stage == NewStage
              out == ZPipe(Snapshot, p, stage, NoOptions, r)
          IN  /\ Room(p)
              /\ conns' = out.st.conns
              /\ fanout' = out.st.fanout
              /\ errL' = out.st.errL
              /\ chain' = out.st.chain
              /\ last' = CallRecord("pipe", p, stage, NoOptions, r, out)
              /\ seen' = Observed(out, listening)
              /\ held' = HeldAfterPipe(held, p, out)
              /\ built' = [StageRecord("intoString", upstream, Undefined,
                                       UpstreamConfig(upstream), JsUndefined,
                                       JsUndefined, 0, stage, out)
                               EXCEPT !.ret = Undefined]
              /\ sink' = IF out.ok THEN NewSink("string", stage) ELSE sink
              /\ UNCHANGED sync

\* The upstream writes one more item into the sink.
SinkWrite ==
    /\ sink.state = "running"
    /\ Len(sink.acc) < MaxAcc
    /\ \E i \in 1..MaxItem : sink' = [sink EXCEPT !.acc = Append(@, i)]
    /\ UNCHANGED <<conns, fanout, errL, chain, last, seen, sync, held, built>>

\* The sink signals completion.
SinkFinish ==
    /\ sink.state = "running"
    /\ sink' = IntoCallback([sink EXCEPT !.state = "finished"], "finish")
    /\ UNCHANGED <<conns, fanout, errL, chain, last, seen, sync, held, built>>

\* The sink signals a failure, while it runs or after it completed.
SinkFail ==
    /\ sink.state \in {"running", "finished"}
    /\ \E e \in Failures :
          sink' = IntoCallback([sink EXCEPT !.state = "failed"], e)
    /\ UNCHANGED <<conns, fanout, errL, chain, last, seen, sync, held, built>>

SinkNext == IntoArray \/ IntoString \/ SinkWrite \/ SinkFinish \/ SinkFail

StageNext ==
    \/ ThroughStream \/ Filter \/ Split \/ Batch \/ Pluck
    \/ Intersperse \/ Each \/ IntoArray \/ IntoString

Init ==
    /\ conns = [p \in Producers |-> <<>>]
    /\ fanout = [p \in Producers |-> <<>>]
    /\ errL = [n \in Nodes \cup Stages |-> <<>>]
    /\ chain = [n \in Nodes \cup Stages |-> "none"]
    /\ last = NoCall
    /\ seen = [observed |-> FALSE, st |-> Snapshot]
    /\ sync = NoItem
    /\ held = NotHeld
    /\ built = NoStage
    /\ sink = NoSink

Next ==
    \/ \E p \in Producers, x \in Consumers, o \in Options :
          Pipe(p, x, o)
    \/ \E p \in Producers, x \in Consumers, o \in Options :
          Tee(p, x, o)
    \/ \E p \in Producers, d \in Consumers \cup {Undefined} : Unpipe(p, d)
    \/ \E n \in Consumers, l \in UserListeners : AddErrorListener(n, l)
    \/ \E n \in Nodes : ComputeChain(n)

Spec == Init /\ [][Next]_vars

\* pipe, tee and unpipe with a caller that keeps the array of downstream
\* streams.
LiveNext ==
    \/ \E p \in Producers, x \in Consumers, o \in Options : Pipe(p, x, o)
    \/ \E p \in Producers, x \in Consumers, o \in Options : Tee(p, x, o)
    \/ \E p \in Producers, d \in Consumers \cup {Undefined} : Unpipe(p, d)
    \/ \E p \in Producers : GetDownstreamStreams(p)

LiveSpec == Init /\ [][LiveNext]_vars

\* The convenience constructors, each building and wiring a new stage.
StageSpec == Init /\ [][StageNext]_vars

\* intoArray and intoString with their sink at work; a sink that runs
\* completes or fails in the end.
SinkSpec == Init /\ [][SinkNext]_vars /\ WF_vars(SinkFinish \/ SinkFail)

\* The stages at work, the wiring left as it is.
SyncSpec == Init /\ [][SyncNext]_vars

\* The through stages, asynchronous and synchronous, at work.
ThroughSpec == Init /\ [][ThroughNext]_vars

-----------------------------------------------------------------------------
(* The connection primitive: pipe, unpipe, tee *)

Connected == last.op \in {"pipe", "tee"} /\ last.ok
Disconnected == last.op = "unpipe" /\ last.ok

\* C1: a successful pipe (or tee) leaves the producer's downstream list equal
\* to the one before with the destination appended: the destination counts
\* once more, every earlier entry keeps its place, and a destination that
\* carries the z-stream marker is the appended node itself.
C1_ConnectAppends ==
    [][Connected' =>
        /\ fanout'[last'.src] = Append(fanout[last'.src], last'.dest)
        /\ CountIn(fanout'[last'.src], last'.dest)
              = CountIn(fanout[last'.src], last'.dest) + 1
        /\ IsZStream(last'.arg) => last'.dest = last'.arg]_vars

\* C1: a pipe to a destination the producer already lists.
C1_Witness ==
    /\ last.op = "pipe" /\ last.ok
    /\ Len(fanout[last.src]) = 2
    /\ CountIn(fanout[last.src], last.dest) = 2

\* C2: a successful unpipe(d) removes exactly one entry identical to d from
\* the downstream list (none when d is not listed) and keeps the others in
\* order; unpipe() leaves the list empty.
C2_DisconnectRemovesOne ==
    [][Disconnected' =>
        LET f == fanout[last'.src]
            g == fanout'[last'.src]
            d == last'.arg
        IN  IF d = Undefined THEN g = <<>>
            ELSE IF CountIn(f, d) = 0 THEN g = f
            ELSE \E i \in 1..Len(f) : f[i] = d /\ g = RemoveAt(f, i)]_vars

\* C3: the downstream list of a producer holds the same consumers, each as
\* many times, as the pipes the primitive holds from that producer.
C3_FanoutMatchesPrimitive ==
    \A p \in Producers, n \in Consumers :
        CountIn(fanout[p], n) = CountIn(conns[p], n)

C5_OnlyDefaultListenerRemoved ==
    [][Connected' =>
        /\ errL' = errL
        /\ CountIn(errL'[last'.dest], OnError) = 0]_vars

\* C5: a second pipe to a destination that carries a user's error listener.
C5_Witness ==
    /\ Connected
    /\ CountIn(errL[last.dest], "u1") = 1
    /\ CountIn(fanout[last.src], last.dest) = 2

\* C6: tee leaves what pipe leaves from the same state with the same
\* arguments, fails when pipe fails, and returns the producer.
C6_TeeIsPipe ==
    [][last'.op = "tee" =>
        LET out == ZPipe(Snapshot, last'.src, last'.arg, last'.opts, last'.prim)
        IN  /\ Snapshot' = out.st
            /\ last'.ok = out.ok
            /\ last'.raised = out.raised
            /\ last'.dest = out.dest
            /\ last'.ok => last'.ret = last'.src]_vars

\* C6: a tee to a foreign destination, converted, that returned the producer.
C6_Witness ==
    /\ last.op = "tee" /\ last.ok
    /\ last.converted
    /\ last.ret = last.src
    /\ last.ret # last.dest

\* C7: pipe calls the conversion exactly when the destination lacks the
\* marker and noConvert is not set; the node it then wires, strips of the
\* default error listener, lists, marks and returns is the converted one, and
\* the destination itself otherwise.
C7_ConvertedNodeIsUsed ==
    [][last'.op \in {"pipe", "tee"} =>
        LET x == last'.arg
            should == ~IsZStream(x) /\ ~(last'.opts.given /\ last'.opts.noConvert)
            d == IF should THEN convertToZStream(x) ELSE x
            p == last'.src
        IN  /\ last'.converted = should
            /\ last'.dest = d
            /\ last'.ok =>
                  /\ conns'[p] = Append(conns[p], d)
                  /\ fanout'[p] = Append(fanout[p], d)
                  /\ errL'[d] = errL[d]
                  /\ chain[d] # "none" => chain'[d] = "dirty"
                  /\ last'.op = "pipe" => last'.ret = d
                  /\ d # x => /\ errL'[x] = errL[x]
                              /\ chain'[x] = chain[x]
                              /\ CountIn(conns'[p], x) = CountIn(conns[p], x)
                              /\ CountIn(fanout'[p], x) = CountIn(fanout[p], x)]_vars

\* C7: a pipe to a foreign destination that wired its wrapper, and whose
\* wrapper had a computed chain.
C7_Witness ==
    /\ last.op = "pipe" /\ last.ok
    /\ last.arg = "X1" /\ last.converted /\ last.dest = "Z1" /\ last.ret = "Z1"
    /\ chain["Z1"] = "dirty"
    /\ CountIn(fanout[last.src], "X1") = 1

\* C8: when the primitive's pipe or unpipe raises, the call raises that same
\* failure and has changed neither the downstream list nor an error listener
\* nor a chain.
C8_FailureLeavesNothing ==
    [][last'.op # "none" =>
        /\ last'.prim # "ok" => ~last'.ok
        /\ ~last'.ok =>
              /\ last'.raised = last'.prim
              /\ last'.raised \in Failures
              /\ UNCHANGED <<fanout, errL, chain>>]_vars

\* C8: a failed pipe on a producer with a destination listed, a clean chain
\* and a user's error listener on the destination.
C8_Witness ==
    /\ last.op = "pipe" /\ ~last.ok /\ last.raised = "E1"
    /\ Len(fanout[last.src]) >= 1
    /\ chain[last.src] = "clean"
    /\ Len(errL[last.dest]) = 1

\* C9: whatever code runs during or after a call, the listeners the
\* primitive invokes while it wires or unwires included, sees the pipes, the
\* downstream lists, the error listeners and the chains either all as they
\* were before the call or all as they are after it.
C9_NoPartialState ==
    [][last'.op # "none" => seen'.st \in {Snapshot, Snapshot'}]_vars

C18_DirtyIsMonotone ==
    [][last'.op # "none" =>
        \A n \in DOMAIN chain :
            /\ chain[n] = "dirty" => chain'[n] = "dirty"
            /\ chain[n] = "none" <=> chain'[n] = "none"]_vars

\* C18: a pipe between a producer whose chain was already dirty or got
\* marked and a destination that has no chain.
C18_Witness ==
    /\ Connected
    /\ chain[last.src] = "dirty"
    /\ IsZStream(last.dest)
    /\ chain[last.dest] = "none"

-----------------------------------------------------------------------------
(* The synchronous wrappers *)

SyncItem == sync.variant \in {"throughSync", "throughObjSync", "throughDataSync", "filterSync"}

\* C10 as stated: when the caller's function raises, the callback gets the
\* error as its first argument and nothing leaves the wrapper; when it
\* returns v, the callback gets (null, v).
C10_NothingEscapes ==
    SyncItem =>
        /\ sync.fargs = <<ItemArg(sync.item)>>
        /\ sync.fo.raises =>
              /\ sync.calls = <<CbCall(FErr, 0)>>
              /\ sync.escaped = "none"
        /\ ~sync.fo.raises =>
              /\ Len(sync.calls) >= 1
              /\ sync.calls[1] = CbCall("null", sync.fo.val)

\* C10 amended: when the caller's function raises, the callback gets the
\* error as its first argument, once, and what the function raised never
\* leaves the wrapper: only an exception the callback itself raises on that
\* invocation does; when the function returns v, the callback gets (null, v).
C10_ErrorForwarded ==
    SyncItem =>
        /\ sync.fargs = <<ItemArg(sync.item)>>
        /\ sync.fo.raises =>
              /\ sync.calls = <<CbCall(FErr, 0)>>
              /\ sync.escaped # FErr
              /\ sync.escaped # "none" => (sync.cbE /\ sync.escaped = CbErr)
              /\ ~sync.cbE => sync.escaped = "none"
        /\ ~sync.fo.raises =>
              /\ Len(sync.calls) >= 1
              /\ sync.calls[1] = CbCall("null", sync.fo.val)

\* C10: the function raised on item 2, the callback took the error.
C10_Witness ==
    /\ SyncItem
    /\ sync.item = 2
    /\ sync.fo.raises
    /\ ~sync.cbE
    /\ sync.calls = <<CbCall(FErr, 0)>>
    /\ sync.escaped = "none"

\* C19: for every item the stage hands to the function built by throughSync
\* (or its Obj/Data variants) or filterSync, the completion callback is
\* invoked exactly once, also when that callback raises on the result.
C19_CallbackOnce ==
    SyncItem => Len(sync.calls) = 1

\* C14: the caller's transform is called with the signature of the
\* upstream's mode: (chunk, encoding, done) in data mode and (object, done)
\* in object mode; for the Sync variants (chunk, encoding) and (object).
C14_SignatureFollowsMode ==
    /\ sync.variant \in {"through", "throughObj", "throughData"} =>
          sync.fargs = IF sync.upstream
                       THEN <<ItemArg(sync.item), CbArg>>
                       ELSE <<ItemArg(sync.item), EncArg, CbArg>>
    /\ sync.variant \in {"throughSync", "throughObjSync", "throughDataSync"} =>
          sync.fargs = IF sync.upstream
                       THEN <<ItemArg(sync.item)>>
                       ELSE <<ItemArg(sync.item), EncArg>>

-----------------------------------------------------------------------------
(* The fanout accessor *)

\* C13: the array a caller got from getDownstreamStreams equals the
\* producer's current list of downstream streams at every later time.
C13_HeldArrayIsLive ==
    held.taken => held.val = fanout[held.src]

-----------------------------------------------------------------------------
(* The convenience constructors *)

\* C12: every constructor configures its stage's consumption mode to the
\* upstream's isReadableObjectMode(), whichever that is, and the production
\* mode to the same value unless an objectMode override was passed.
C12_ModeFollowsUpstream ==
    built.ctor # "none" =>
        /\ built.writable = Mode(built.upstream)
        /\ built.objectMode = Undefined => built.readable = Mode(built.upstream)

\* A text that is an integer numeral: an optional minus sign, then digits only.
IsIntegerNumeral(text) ==
    LET body == IF text # <<>> /\ Head(text) = "-" THEN Tail(text) ELSE text
    IN  body # <<>> /\ \A i \in DOMAIN body : IsDigit(body[i])

IntegerOf(text) ==
    IF Head(text) = "-" THEN 0 - DecimalValue(Tail(text)) ELSE DecimalValue(text)

\* C15: batch(batchSize) does not raise and builds its stage with size n when
\* the argument is the integer n or the numeric string of n, and with size 10
\* for every other argument.
C15_BatchSizeOrDefault ==
    built.ctor = "batch" =>
        /\ last.prim = "ok" => built.raised = "none"
        /\ built.size =
              IF built.arg.t \in {"number", "string"} /\ IsIntegerNumeral(built.arg.v)
              THEN IntegerOf(built.arg.v)
              ELSE 10

\* C16: intersperse(separator) builds its stage with the newline when the
\* argument is null, undefined or omitted, and with the argument itself,
\* unchanged, in every other case: the empty string, 0 and false included.
C16_SeparatorDefault ==
    built.ctor = "intersperse" =>
        IF built.arg.t \in {"null", "undefined"}
        THEN built.param = Newline
        ELSE built.param = built.arg

C16_Witness ==
    /\ built.ctor = "intersperse"
    /\ built.raised = "none"
    /\ built.arg = JsString(<<>>)
    /\ built.param = JsString(<<>>)
    /\ built.param # Newline

-----------------------------------------------------------------------------
(* The sinks into memory *)

\* What the callback must have been called with, given the sink's first signal.
ExpectedSinkCb ==
    IF sink.signal = "finish"
    THEN SinkCb("null", TRUE,
                IF sink.kind = "array" THEN GetArray(sink.acc)
                ELSE GetString(sink.acc))
    ELSE SinkCb(sink.signal, FALSE, <<>>)

\* C11: after intoArray(cb) or intoString(cb), cb is called once and no
\* more: not before the sink signals, then as cb(error) if the sink failed
\* or as cb(null, result) if it completed, never both and never again; and
\* a sink that runs does get its callback called.
C11_CallbackExactlyOnce ==
    /\ [](sink.kind # "none" =>
            /\ Len(sink.calls) <= 1
            /\ sink.calls = IF sink.signal = "none" THEN <<>>
                            ELSE <<ExpectedSinkCb>>)
    /\ (sink.state = "running" ~> Len(sink.calls) = 1)

C11_Witness ==
    /\ sink.kind = "string"
    /\ sink.state = "failed"
    /\ sink.signal = "finish"
    /\ Len(sink.acc) = MaxAcc
    /\ Len(sink.calls) = 1
    /\ sink.calls[1].hasResult

====
